---- MODULE Spec2Model ----
(***************************************************************************)
(* The introspector of crates/typst/src/introspection/introspector.rs:     *)
(* the walk over the page frames that builds the element index, the label  *)
(* cache and the page numbering list, the lookups by location, and the     *)
(* selector queries with their cache.                                      *)
(*                                                                         *)
(* The frames are the input.  They are walked depth first, so the model    *)
(* draws them item by item: every action of the walk is one iteration of   *)
(* the loop of `extract` over an item the environment chooses, `stack`     *)
(* holds the calls of `extract` that are open (one per nested group) and   *)
(* `item` is the loop variable.                                            *)
(*                                                                         *)
(* Option<T> is a sequence of length at most one: None is <<>>, Some(x) is *)
(* <<x>>.  Vec, EcoVec and SmallVec are sequences; the indices the code    *)
(* stores are 0-based, as in the code, and a[k] of the code is a[k + 1]    *)
(* here.                                                                   *)
(***************************************************************************)
EXTENDS Integers, Sequences, FiniteSets, TLC

\* ---------------------------------------------------------------- bounds

\* Number of distinct Locations the frames may name.
NumLocs == 3
\* Largest number of page frames.
MaxPages == 2
\* Deepest nesting of groups.
MaxDepth == 2
\* Largest number of numbering markers in all frames together.
MaxNumberings == 2
\* Largest number of calls made on one built introspector.
MaxCalls == 2

\* usize::MAX, the index `index` gives to an element that is not indexed
\* (the largest 32-bit integer stands for it: TLC's integers are 32 bits wide).
USIZE_MAX == 2147483647

\* ------------------------------------------------------------ input values

None == <<>>
Some(x) == <<x>>

Locations == 1..NumLocs
Labels == {"intro"}
Funcs == {"heading", "figure"}
Numberings == {"1"}

Pt(x, y) == [x |-> x, y |-> y]
\* Point::zero()
PointZero == Pt(0, 0)

\* The local points of element markers, and the offsets of groups.
ElemPoints == {PointZero, Pt(1, 2)}
GroupOffsets == {Pt(3, 0), Pt(0, 5)}

\* Transform { sx, ky, kx, sy, tx, ty }: x' = sx*x + kx*y + tx,
\* y' = ky*x + sy*y + ty.
Tf(sx, kx, ky, sy, tx, ty) ==
    [sx |-> sx, kx |-> kx, ky |-> ky, sy |-> sy, tx |-> tx, ty |-> ty]
\* Transform::identity()
Identity == Tf(1, 0, 0, 1, 0, 0)
\* Transform::translate(tx, ty)
Translate(tx, ty) == Tf(1, 0, 0, 1, tx, ty)
\* A quarter turn and a scaling by two, the transforms groups carry besides
\* the identity.
Rotate90 == Tf(0, -1, 1, 0, 0, 0)
Scale2 == Tf(2, 0, 0, 2, 0, 0)
GroupTransforms == {Identity, Rotate90, Scale2}

\* self.pre_concat(prev): the transform that applies prev, then self.
PreConcat(self, prev) ==
    Tf(self.sx * prev.sx + self.kx * prev.ky,
       self.sx * prev.kx + self.kx * prev.sy,
       self.ky * prev.sx + self.sy * prev.ky,
       self.ky * prev.kx + self.sy * prev.sy,
       self.sx * prev.tx + self.kx * prev.ty + self.tx,
       self.ky * prev.tx + self.sy * prev.ty + self.ty)

\* point.transform(ts)
PointTransform(point, ts) ==
    Pt(ts.sx * point.x + ts.kx * point.y + ts.tx,
       ts.ky * point.x + ts.sy * point.y + ts.ty)

\* A content value: its location, its optional label and its element
\* function (what Selector::Elem matches on).
Content(loc, label, func) == [loc |-> loc, label |-> label, func |-> func]

\* ------------------------------------------------------------------ state

VARIABLES
    pc,               \* "extract" while with_capacity runs, then "built"; "panic" after a failed assert
    pages,            \* Introspector::pages, frames.len()
    elems,            \* Introspector::elems, in insertion order
    page_numberings,  \* Introspector::page_numberings
    queries,          \* Introspector::queries
    label_cache,      \* Introspector::label_cache
    pageno,           \* with_capacity: the page of the frame being walked, 1 + i; 0 before the first
    stack,            \* the open calls of extract below the page frame's
    item,             \* extract: the item of the current iteration
    numbered,         \* the input: the page each entry of page_numberings was recorded on
    call,             \* the last call made on the built introspector
    ret,              \* and what it returned
    ncalls            \* the number of query and query_first calls made so far

vars == <<pc, pages, elems, page_numberings, queries, label_cache, pageno,
          stack, item, numbered, call, ret, ncalls>>

NoItem == [kind |-> "none"]
NoCall == [op |-> "none"]

\* IndexMap::contains_key
contains_key(map, location) ==
    \E k \in 1..Len(map) : map[k].content.loc = location

\* IndexMap::get_index_of, 0-based
get_index_of(map, location) ==
    IF contains_key(map, location)
    THEN Some((CHOOSE k \in 1..Len(map) : map[k].content.loc = location) - 1)
    ELSE None

\* IndexMap::insert: a new key is appended, an old key keeps its place and
\* has its value replaced; returns the old value.
insert(map, location, value) ==
    LET at == get_index_of(map, location)
    IN  IF at = None
        THEN [map |-> Append(map, value), ret |-> None]
        ELSE [map |-> [map EXCEPT ![at[1] + 1] = value],
              ret |-> Some(map[at[1] + 1])]

\* The transform of the call of extract that is running.
Ts == IF stack = <<>> THEN Identity ELSE stack[Len(stack)].ts

\* with_capacity: the introspector before the first frame is walked.
InitPages(counts) ==
    /\ pc = "extract"
    /\ pages \in counts
    /\ elems = <<>>
    /\ page_numberings = <<>>
    /\ queries = <<>>
    /\ label_cache = <<>>
    /\ pageno = 0
    /\ stack = <<>>
    /\ item = NoItem
    /\ numbered = <<>>
    /\ call = NoCall
    /\ ret = None
    /\ ncalls = 0

Init == InitPages(0..MaxPages)

\* ------------------------------------------------------------- the walk

untouched_index == UNCHANGED <<elems, page_numberings, label_cache, numbered>>

\* with_capacity: the loop over the frames calls extract on the next one.
NextFrame ==
    /\ pc = "extract"
    /\ stack = <<>>
    /\ pageno < pages
    /\ pageno' = pageno + 1
    /\ item' = NoItem
    /\ untouched_index
    /\ UNCHANGED <<pc, pages, queries, stack, call, ret, ncalls>>

\* GroupTs with the group's transform applied after its offset.
GroupTsTransformFirst(ts, pos, transform) ==
    PreConcat(PreConcat(ts, transform), Translate(pos.x, pos.y))

\* extract, FrameItem::Group: descend with the group's transform.
GroupTs(ts, pos, transform) ==
    PreConcat(PreConcat(ts, Translate(pos.x, pos.y)), transform)

ExtractGroup(pos, transform) ==
    /\ pc = "extract"
    /\ pageno >= 1
    /\ Len(stack) < MaxDepth
    /\ item' = [kind |-> "group", pos |-> pos, transform |-> transform]
    /\ stack' = Append(stack, [pos |-> pos, transform |-> transform,
                               ts |-> GroupTs(Ts, pos, transform)])
    /\ untouched_index
    /\ UNCHANGED <<pc, pages, queries, pageno, call, ret, ncalls>>

\* extract: the loop over a group's frame ends and the call returns to the
\* iteration of the group.
ReturnFromGroup ==
    /\ pc = "extract"
    /\ stack # <<>>
    /\ item' = [kind |-> "group", pos |-> stack[Len(stack)].pos,
                transform |-> stack[Len(stack)].transform]
    /\ stack' = SubSeq(stack, 1, Len(stack) - 1)
    /\ untouched_index
    /\ UNCHANGED <<pc, pages, queries, pageno, call, ret, ncalls>>

\* ElemGuard without the test for an indexed location.
ElemGuardAlways(content) == TRUE

\* The guard of the Meta::Elem arm.
ElemGuard(content) == ~contains_key(elems, content.loc)

\* The label cache after the element just inserted is recorded:
\* entry(label).or_insert_with(SmallVec::new).push(self.elems.len() - 1).
LabelPush(cache, label, n) ==
    [l \in DOMAIN cache \cup {label} |->
        IF l = label
        THEN Append(IF l \in DOMAIN cache THEN cache[l] ELSE <<>>, n - 1)
        ELSE cache[l]]

\* extract, FrameItem::Meta(Meta::Elem(content)): index the element unless
\* its location is indexed already; then the marker falls to the last arm.
ExtractElem(content, pos) ==
    /\ pc = "extract"
    /\ pageno >= 1
    /\ item' = [kind |-> "elem", content |-> content, pos |-> pos]
    /\ IF ElemGuard(content)
       THEN LET point == PointTransform(pos, Ts)
                ins == insert(elems, content.loc,
                              [content |-> content,
                               pos |-> [page |-> pageno, point |-> point]])
            IN  /\ elems' = ins.map
                /\ pc' = IF ins.ret = None THEN pc ELSE "panic"
                /\ label_cache' =
                       IF ins.ret = None /\ content.label # None
                       THEN LabelPush(label_cache, content.label[1], Len(ins.map))
                       ELSE label_cache
       ELSE UNCHANGED <<pc, elems, label_cache>>
    /\ UNCHANGED <<pages, page_numberings, queries, pageno, stack, numbered,
                   call, ret, ncalls>>

\* extract, FrameItem::Meta(Meta::PageNumbering(numbering)).
ExtractPageNumbering(numbering) ==
    /\ pc = "extract"
    /\ pageno >= 1
    /\ Len(page_numberings) < MaxNumberings
    /\ item' = [kind |-> "numbering", numbering |-> numbering]
    /\ page_numberings' = Append(page_numberings, numbering)
    /\ numbered' = Append(numbered, pageno)
    /\ UNCHANGED <<pc, pages, elems, queries, label_cache, pageno, stack,
                   call, ret, ncalls>>

\* extract, the last arm: any other item is skipped.
ExtractOther ==
    /\ pc = "extract"
    /\ pageno >= 1
    /\ item' = [kind |-> "other"]
    /\ untouched_index
    /\ UNCHANGED <<pc, pages, queries, pageno, stack, call, ret, ncalls>>

\* with_capacity: every frame is walked, the introspector is returned.
Built ==
    /\ pc = "extract"
    /\ stack = <<>>
    /\ pageno = pages
    /\ pc' = "built"
    /\ item' = NoItem
    /\ untouched_index
    /\ UNCHANGED <<pages, queries, pageno, stack, call, ret, ncalls>>


\* --------------------------------------------------- lookups by location

\* Vec::get, 0-based.
VecGet(v, k) == IF 0 <= k /\ k < Len(v) THEN Some(v[k + 1]) ELSE None

\* Find the position for the given location.
position(location) ==
    LET at == get_index_of(elems, location)
    IN  IF at # None
        THEN elems[at[1] + 1].pos
        ELSE [page |-> 1, point |-> PointZero]

\* Find the page number for the given location.
page(location) == position(location).page

\* page_numbering with the page itself as the index into the list.
page_numbering_no_offset(location) ==
    LET slot == VecGet(page_numberings, page(location))
    IN  IF slot = None THEN None ELSE slot[1]

\* Gets the page numbering for the given location, if any.
page_numbering(location) ==
    LET slot == VecGet(page_numberings, page(location) - 1)
    IN  IF slot = None THEN None ELSE slot[1]

Ok(v) == [ok |-> TRUE, value |-> v]
Err(e) == [ok |-> FALSE, err |-> e]

\* query_label that takes two elements with the label for one.
query_label_over_two(label) ==
    IF label \notin DOMAIN label_cache
    THEN Err("does not exist")
    ELSE LET indices == label_cache[label]
         IN  IF Len(indices) > 2
             THEN Err("occurs multiple times")
             ELSE IF Len(indices) = 0
                  THEN Err("panic")
                  ELSE Ok(elems[indices[1] + 1].content)

\* Query for a unique element with the label.  Indexing an empty slot
\* (indices[0]) would panic.
query_label(label) ==
    IF label \notin DOMAIN label_cache
    THEN Err("does not exist")
    ELSE LET indices == label_cache[label]
         IN  IF Len(indices) > 1
             THEN Err("occurs multiple times")
             ELSE IF Len(indices) = 0
                  THEN Err("panic")
                  ELSE Ok(elems[indices[1] + 1].content)

\* A call on the built introspector that only reads it.
Lookup(op, arg, result) ==
    /\ pc = "built"
    /\ call' = [op |-> op, arg |-> arg]
    /\ ret' = result
    /\ UNCHANGED <<pc, pages, elems, page_numberings, queries, label_cache,
                   pageno, stack, item, numbered, ncalls>>

CallPosition(location) == Lookup("position", location, position(location))
CallPage(location) == Lookup("page", location, page(location))
CallPageNumbering(location) ==
    Lookup("page_numbering", location, page_numbering(location))
CallQueryLabel(label) == Lookup("query_label", label, query_label(label))


\* ---------------------------------------------------------------- queries

\* Selector, the variants `query` matches on.  Regex and Can selectors take
\* the arm of Elem: a scan of all elements with `matches`.
SelLabel(label) == [t |-> "Label", label |-> label]
SelElem(func) == [t |-> "Elem", func |-> func]
SelLocation(location) == [t |-> "Location", location |-> location]
SelBefore(selector, end, inclusive) ==
    [t |-> "Before", selector |-> selector, end |-> end, inclusive |-> inclusive]
SelAfter(selector, start, inclusive) ==
    [t |-> "After", selector |-> selector, start |-> start, inclusive |-> inclusive]
SelAnd(selectors) == [t |-> "And", selectors |-> selectors]
SelOr(selectors) == [t |-> "Or", selectors |-> selectors]

\* Selector::matches for an element selector: the element is of the function.
matches(selector, elem) == selector.t = "Elem" /\ elem.func = selector.func

\* crate::util::hash128, a 128-bit fingerprint of the value's structure:
\* equal on equal values and taken to be free of collisions.
hash128(value) == [h128 |-> value]

\* CacheKey that leaves `inclusive` out of the fingerprint.
CacheKeyNoFlag(selector) ==
    IF selector.t \in {"Before", "After"}
    THEN hash128([selector EXCEPT !.inclusive = FALSE])
    ELSE hash128(selector)

\* query: the key of the selector in the cache.
CacheKey(selector) == hash128(selector)

\* self.queries.borrow().get(&hash)
CacheGet(cache, hash) ==
    IF hash \in DOMAIN cache THEN Some(cache[hash]) ELSE None

\* self.queries.borrow_mut().insert(hash, output.clone())
CacheInsert(cache, hash, output) ==
    [h \in DOMAIN cache \cup {hash} |-> IF h = hash THEN output ELSE cache[h]]

\* Iterate over all locatable elements.
all == [k \in 1..Len(elems) |-> elems[k].content]

\* Get an element by its location.
get(location) ==
    LET at == get_index_of(elems, location)
    IN  IF at = None THEN None ELSE Some(elems[at[1] + 1].content)

\* Get the index of this element among all.
index(elem) ==
    LET at == get_index_of(elems, elem.loc)
    IN  IF at = None THEN USIZE_MAX ELSE at[1]

\* slice::binary_search_by_key over keys[left..right), 0-based: Ok(i) is
\* [found |-> TRUE, i |-> i], Err(i) is [found |-> FALSE, i |-> i].
RECURSIVE binary_search_by_key(_, _, _, _)
binary_search_by_key(keys, key, left, right) ==
    IF left < right
    THEN LET mid == left + (right - left) \div 2
         IN  IF keys[mid + 1] < key
             THEN binary_search_by_key(keys, key, mid + 1, right)
             ELSE IF keys[mid + 1] > key
                  THEN binary_search_by_key(keys, key, left, mid)
                  ELSE [found |-> TRUE, i |-> mid]
    ELSE [found |-> FALSE, i |-> left]

\* Perform a binary search for `elem` among the `list`.
binary_search(list, elem) ==
    binary_search_by_key([k \in 1..Len(list) |-> index(list[k])], index(elem),
                         0, Len(list))

\* bool as usize
AsUsize(b) == IF b THEN 1 ELSE 0

\* The Label arm.
LabelArm(label) ==
    IF label \in DOMAIN label_cache
    THEN [k \in 1..Len(label_cache[label]) |->
             elems[label_cache[label][k] + 1].content]
    ELSE <<>>

\* The Elem | Regex | Can arm.
ScanArm(selector) == SelectSeq(all, LAMBDA elem : matches(selector, elem))

\* The Location arm.
LocationArm(location) == get(location)

\* The Before arm, once `list` and `end` are queried.
BeforeArm(list, end, inclusive) ==
    IF end # None
    THEN LET found == binary_search(list, end[1])
             split == IF found.found
                      THEN found.i + AsUsize(inclusive)
                      ELSE found.i
         IN  SubSeq(list, 1, split)
    ELSE list

\* AfterArm with the split of the Before arm.
AfterArmSplitOfBefore(list, start, inclusive) ==
    IF start # None
    THEN LET found == binary_search(list, start[1])
             split == IF found.found
                      THEN found.i + AsUsize(inclusive)
                      ELSE found.i
         IN  SubSeq(list, split + 1, Len(list))
    ELSE list

\* The After arm, once `list` and `start` are queried.
AfterArm(list, start, inclusive) ==
    IF start # None
    THEN LET found == binary_search(list, start[1])
             split == IF found.found
                      THEN found.i + AsUsize(~inclusive)
                      ELSE found.i
         IN  SubSeq(list, split + 1, Len(list))
    ELSE list

\* Iterator::min_by_key over the lengths: the first of the shortest lists
\* (1-based).
MinByKeyLen(results) ==
    CHOOSE i \in 1..Len(results) :
        /\ \A j \in 1..Len(results) : Len(results[i]) <= Len(results[j])
        /\ \A j \in 1..(i - 1) : Len(results[j]) > Len(results[i])

\* Vec::swap_remove: the last element takes the place of the removed one.
SwapRemove(v, i) ==
    LET front == SubSeq(v, 1, Len(v) - 1)
    IN  IF i = Len(v) THEN front ELSE [front EXCEPT ![i] = v[Len(v)]]

\* InAllOthers with `any` for `all`.
InAnyOther(others, candidate) ==
    \E k \in 1..Len(others) : binary_search(others[k], candidate).found

\* The filter of the And arm: the candidate is in every other list.
InAllOthers(others, candidate) ==
    \A k \in 1..Len(others) : binary_search(others[k], candidate).found

\* The And arm, once the sub-selectors are queried.
AndArm(results) ==
    IF results = <<>>
    THEN <<>>
    ELSE LET i == MinByKeyLen(results)
             others == SwapRemove(results, i)
         IN  SelectSeq(results[i], LAMBDA candidate : InAllOthers(others, candidate))

\* Iterator::flat_map over the result lists.
RECURSIVE FlatMap(_)
FlatMap(results) ==
    IF results = <<>> THEN <<>> ELSE Head(results) \o FlatMap(Tail(results))

\* BTreeSet::into_iter: the members in ascending order.
RECURSIVE IntoIter(_)
IntoIter(set) ==
    IF set = {}
    THEN <<>>
    ELSE LET least == CHOOSE m \in set : \A n \in set : m <= n
         IN  <<least>> \o IntoIter(set \ {least})

\* OrArm that collects the matches into a Vec: neither sorted nor
\* deduplicated.
OrArmUnsorted(results) == FlatMap(results)

\* OrArm that sorts the matches by index and keeps the repeated ones.
RECURSIVE GatherFrom(_, _)
GatherFrom(matched, k) ==
    IF k >= Len(elems)
    THEN <<>>
    ELSE SelectSeq(matched, LAMBDA elem : index(elem) = k)
         \o GatherFrom(matched, k + 1)
OrArmSortedVec(results) == GatherFrom(FlatMap(results), 0)

\* The Or arm, once the sub-selectors are queried.
OrArm(results) ==
    LET matched == FlatMap(results)
        indices == IntoIter({ index(matched[k]) : k \in 1..Len(matched) })
    IN  [k \in 1..Len(indices) |-> elems[indices[k] + 1].content]

\* Query for all matching elements, with `cache` for self.queries: the
\* output and the cache after the call.
RECURSIVE query(_, _)
RECURSIVE query_first(_, _)
RECURSIVE QueryEach(_, _)

query(selector, cache) ==
    LET hash == CacheKey(selector)
        hit == CacheGet(cache, hash)
    IN  IF hit # None
        THEN [output |-> hit[1], cache |-> cache]
        ELSE LET r ==
                   CASE selector.t = "Label" ->
                          [output |-> LabelArm(selector.label), cache |-> cache]
                     [] selector.t = "Elem" ->
                          [output |-> ScanArm(selector), cache |-> cache]
                     [] selector.t = "Location" ->
                          [output |-> LocationArm(selector.location), cache |-> cache]
                     [] selector.t = "Before" ->
                          LET list == query(selector.selector, cache)
                              end == query_first(selector.end, list.cache)
                          IN  [output |-> BeforeArm(list.output, end.output,
                                                    selector.inclusive),
                               cache |-> end.cache]
                     [] selector.t = "After" ->
                          LET list == query(selector.selector, cache)
                              start == query_first(selector.start, list.cache)
                          IN  [output |-> AfterArm(list.output, start.output,
                                                   selector.inclusive),
                               cache |-> start.cache]
                     [] selector.t = "And" ->
                          LET results == QueryEach(selector.selectors, cache)
                          IN  [output |-> AndArm(results.outputs),
                               cache |-> results.cache]
                     [] selector.t = "Or" ->
                          LET results == QueryEach(selector.selectors, cache)
                          IN  [output |-> OrArm(results.outputs),
                               cache |-> results.cache]
             IN  [output |-> r.output,
                  cache |-> CacheInsert(r.cache, hash, r.output)]

\* Query for the first element that matches the selector.
query_first(selector, cache) ==
    IF selector.t = "Location"
    THEN [output |-> get(selector.location), cache |-> cache]
    ELSE LET r == query(selector, cache)
         IN  [output |-> IF r.output = <<>> THEN None ELSE Some(r.output[1]),
              cache |-> r.cache]

\* selectors.iter().map(|sel| self.query(sel)), in order.
QueryEach(selectors, cache) ==
    IF selectors = <<>>
    THEN [outputs |-> <<>>, cache |-> cache]
    ELSE LET first == query(Head(selectors), cache)
             rest == QueryEach(Tail(selectors), first.cache)
         IN  [outputs |-> <<first.output>> \o rest.outputs, cache |-> rest.cache]

\* A call of query or query_first on the built introspector.
CallQuery(selector) ==
    /\ pc = "built"
    /\ ncalls < MaxCalls
    /\ LET r == query(selector, queries)
       IN  /\ queries' = r.cache
           /\ ret' = r.output
    /\ call' = [op |-> "query", arg |-> selector,
                hit |-> CacheGet(queries, CacheKey(selector)) # None]
    /\ ncalls' = ncalls + 1
    /\ UNCHANGED <<pc, pages, elems, page_numberings, label_cache, pageno,
                   stack, item, numbered>>

CallQueryFirst(selector) ==
    /\ pc = "built"
    /\ ncalls < MaxCalls
    /\ LET r == query_first(selector, queries)
       IN  /\ queries' = r.cache
           /\ ret' = r.output
    /\ call' = [op |-> "query_first", arg |-> selector,
                hit |-> CacheGet(queries, CacheKey(selector)) # None]
    /\ ncalls' = ncalls + 1
    /\ UNCHANGED <<pc, pages, elems, page_numberings, label_cache, pageno,
                   stack, item, numbered>>

\* The selectors the calls are made with.
Heading == SelElem("heading")
Figure == SelElem("figure")
Intro == SelLabel("intro")

\* The selectors without sub-selectors.
ListLeaves == {Intro, Heading, Figure}
Leaves == ListLeaves \cup { SelLocation(l) : l \in Locations }

\* The lists of at most two selectors of a set.
UpToTwo(set) ==
    {<<>>} \cup { <<a>> : a \in set } \cup { <<a, b>> : a \in set, b \in set }

\* One level of nesting over the leaves.
Nested1 ==
         { SelBefore(a, e, b) : a \in Leaves, e \in Leaves, b \in BOOLEAN }
    \cup { SelAfter(a, e, b) : a \in Leaves, e \in Leaves, b \in BOOLEAN }
    \cup { SelAnd(l) : l \in UpToTwo(Leaves) }
    \cup { SelOr(l) : l \in UpToTwo(Leaves) }

\* Two levels: ranges of unions and intersections, up to a boundary that is
\* itself a range; unions and intersections of ranges; lists of three.
Pairs == { SelOr(<<a, b>>) : a \in ListLeaves, b \in ListLeaves }
         \cup { SelAnd(<<a, b>>) : a \in ListLeaves, b \in ListLeaves }
Boundaries == {SelLocation(2), Intro, SelAfter(Heading, Intro, FALSE)}
Ranges == { SelBefore(a, SelLocation(2), TRUE) : a \in ListLeaves }
          \cup { SelAfter(a, Intro, FALSE) : a \in ListLeaves }
Threes == { <<a, b, c>> : a \in {Intro, Heading}, b \in {Intro, Heading},
                          c \in {Figure, Heading, SelLocation(2)} }

Nested2 ==
         { SelBefore(a, e, b) : a \in Pairs, e \in Boundaries, b \in BOOLEAN }
    \cup { SelAfter(a, e, b) : a \in Pairs, e \in Boundaries, b \in BOOLEAN }
    \cup { SelAnd(<<a, b>>) : a \in Ranges, b \in ListLeaves }
    \cup { SelAnd(<<a, b>>) : a \in ListLeaves, b \in Ranges }
    \cup { SelOr(<<a, b>>) : a \in Ranges, b \in ListLeaves }
    \cup { SelOr(<<a, b>>) : a \in ListLeaves, b \in Ranges }
    \cup { SelAnd(l) : l \in Threes }
    \cup { SelOr(l) : l \in Threes }

Selectors == Leaves \cup Nested1 \cup Nested2

\* The selectors of the runs of several calls: selectors that share
\* sub-selectors, and ranges that differ in `inclusive` alone.
CacheSelectors ==
    {Intro, Heading, Figure, SelLocation(2),
     SelOr(<<Intro, Heading>>), SelOr(<<Figure, Heading>>),
     SelAnd(<<Heading, Intro>>), SelAnd(<<SelOr(<<Intro, Heading>>), Intro>>)}
    \cup { SelBefore(Heading, SelLocation(2), b) : b \in BOOLEAN }
    \cup { SelAfter(SelOr(<<Intro, Heading>>), Intro, b) : b \in BOOLEAN }
FirstSelectors ==
    {SelLocation(2), Heading, SelOr(<<Intro, Heading>>),
     SelAfter(SelOr(<<Intro, Heading>>), Intro, FALSE)}

\* The element markers the frames may hold.  Locations are opaque tokens
\* that are only compared, so a marker names a location seen before or the
\* least location not yet seen.
Markers(locs, labels, funcs) ==
    { Content(loc, label, func) :
        loc \in { l \in locs : l <= Len(elems) + 1 },
        label \in {None} \cup { Some(l) : l \in labels },
        func \in funcs }


OptNumberings == {None} \cup { Some(n) : n \in Numberings }

\* Frames of element and numbering markers without groups, and the lookups.
Next ==
    \/ NextFrame
    \/ \E c \in Markers(Locations, Labels, {"heading"}) : ExtractElem(c, Pt(1, 2))
    \/ \E n \in OptNumberings : ExtractPageNumbering(n)
    \/ ExtractOther
    \/ Built
    \/ \E l \in Locations : CallPosition(l)
    \/ \E l \in Locations : CallPage(l)
    \/ \E l \in Locations : CallPageNumbering(l)
    \/ \E l \in Labels : CallQueryLabel(l)

Spec == Init /\ [][Next]_vars

\* One page frame of groups and the markers of one element: where an
\* element lands does not depend on the other elements.
InitGroups == InitPages({1})

NextGroups ==
    \/ NextFrame
    \/ \E p \in GroupOffsets, t \in GroupTransforms : ExtractGroup(p, t)
    \/ ReturnFromGroup
    \/ \E c \in Markers({1}, {}, {"heading"}), p \in ElemPoints :
          ExtractElem(c, p)
    \/ Built

SpecGroups == InitGroups /\ [][NextGroups]_vars

\* One page frame of element markers, and one query on the introspector
\* just built, whose cache is empty.
InitQuery == InitPages({1})

NextQuery ==
    \/ NextFrame
    \/ \E c \in Markers(Locations, Labels, Funcs) : ExtractElem(c, Pt(1, 2))
    \/ Built
    \/ \E s \in Selectors : queries = <<>> /\ CallQuery(s)

SpecQuery == InitQuery /\ [][NextQuery]_vars

\* One page frame of element markers, and runs of calls of query and
\* query_first that share the cache.
InitCache == InitPages({1})

NextCache ==
    \/ NextFrame
    \/ \E c \in Markers(Locations, Labels, Funcs) : ExtractElem(c, Pt(1, 2))
    \/ Built
    \/ \E s \in CacheSelectors : CallQuery(s)
    \/ \E s \in FirstSelectors : CallQueryFirst(s)

SpecCache == InitCache /\ [][NextCache]_vars

\* ----------------------------------------------------------------- claims

\* What the claims are stated with.
Fresh(selector) == query(selector, <<>>).output
FreshFirst(selector) == query_first(selector, <<>>).output
InList(list, elem) == \E k \in 1..Len(list) : list[k] = elem
Range(f) == { f[k] : k \in DOMAIN f }
Reverse(list) == [k \in 1..Len(list) |-> list[Len(list) + 1 - k]]
Indexed(location) == contains_key(elems, location)
Queried == pc = "built" /\ call.op = "query"
Called(op) == pc = "built" /\ call.op = op

\* C1: the list a query returns is strictly increasing in document index
\* (the position of the element in the element index) and holds no element
\* twice, whatever the selector and whatever frames the index was built from.
C1_QueryStrictlyIncreasing ==
    Queried =>
        /\ \A k \in 1..Len(ret) : index(ret[k]) < Len(elems)
        /\ \A j \in 1..Len(ret), k \in 1..Len(ret) :
              j < k => index(ret[j]) < index(ret[k]) /\ ret[j] # ret[k]

\* C1, its case: a union whose sub-results, put one after the other, are
\* not in document order.
C1_Witness ==
    /\ Queried
    /\ call.arg = SelOr(<<Figure, Heading>>)
    /\ Len(ret) = 3
    /\ ret[1].func = "heading"
    /\ ret[2].func = "figure"
    /\ ret[3].func = "heading"

\* What a range selector's result must be: the elements of the inner result
\* on the right side of the boundary element, and the boundary element
\* itself when the range is inclusive and it is among them.
BeforeOf(inner, boundary, inclusive) ==
    SelectSeq(inner, LAMBDA elem :
        \/ index(elem) < index(boundary)
        \/ inclusive /\ elem = boundary)
AfterOf(inner, boundary, inclusive) ==
    SelectSeq(inner, LAMBDA elem :
        \/ index(elem) > index(boundary)
        \/ inclusive /\ elem = boundary)

\* C2: with L the result of the inner selector and b the first match of the
\* boundary selector, Before is the elements of L before b and After the
\* elements of L after b, each with b itself when inclusive and b is in L;
\* without a match of the boundary selector both are L.
C2_RangeCorrect ==
    /\ (Queried /\ call.arg.t = "Before") =>
          LET inner == Fresh(call.arg.selector)
              boundary == FreshFirst(call.arg.end)
          IN  ret = IF boundary = None
                    THEN inner
                    ELSE BeforeOf(inner, boundary[1], call.arg.inclusive)
    /\ (Queried /\ call.arg.t = "After") =>
          LET inner == Fresh(call.arg.selector)
              boundary == FreshFirst(call.arg.start)
          IN  ret = IF boundary = None
                    THEN inner
                    ELSE AfterOf(inner, boundary[1], call.arg.inclusive)

\* C2, its case: an inclusive After whose boundary element lies inside the
\* inner result, which cuts some elements off and keeps the boundary.
C2_Witness ==
    /\ Queried
    /\ call.arg.t = "After"
    /\ call.arg.inclusive
    /\ FreshFirst(call.arg.start) # None
    /\ InList(Fresh(call.arg.selector), FreshFirst(call.arg.start)[1])
    /\ Len(ret) >= 2
    /\ Len(ret) < Len(Fresh(call.arg.selector))
    /\ ret[1] = FreshFirst(call.arg.start)[1]

\* C3: after any earlier calls of query and query_first, a query returns
\* the list that evaluating the selector with an empty cache returns.
C3_CacheTransparent ==
    Queried => ret = Fresh(call.arg)

\* C3, its case: a query answered from the cache.
C3_Witness ==
    /\ Queried
    /\ call.hit
    /\ ncalls >= 2
    /\ Len(ret) >= 2

\* C4: an intersection of sub-selectors is the elements found in every
\* sub-result, in document order, and the same for the sub-selectors in
\* reverse order.  (Of no sub-selectors the code returns the empty list.)
C4_AndIntersection ==
    (Queried /\ call.arg.t = "And") =>
        /\ ret = IF call.arg.selectors = <<>>
                 THEN <<>>
                 ELSE SelectSeq(all, LAMBDA elem :
                          \A k \in 1..Len(call.arg.selectors) :
                              InList(Fresh(call.arg.selectors[k]), elem))
        /\ ret = Fresh(SelAnd(Reverse(call.arg.selectors)))

\* C4, its case: two different sub-results of the same length with a common
\* element.
C4_Witness ==
    /\ Queried
    /\ call.arg.t = "And"
    /\ Len(call.arg.selectors) = 2
    /\ Len(Fresh(call.arg.selectors[1])) = Len(Fresh(call.arg.selectors[2]))
    /\ Fresh(call.arg.selectors[1]) # Fresh(call.arg.selectors[2])
    /\ ret # <<>>

\* C5: a union is the elements found in at least one sub-result, each once,
\* in document order, and the same for the sub-selectors in reverse order.
C5_OrUnion ==
    (Queried /\ call.arg.t = "Or") =>
        /\ ret = SelectSeq(all, LAMBDA elem :
                     \E k \in 1..Len(call.arg.selectors) :
                         InList(Fresh(call.arg.selectors[k]), elem))
        /\ ret = Fresh(SelOr(Reverse(call.arg.selectors)))

\* C5, its case: an element matched by both sub-selectors.
C5_Witness ==
    /\ Queried
    /\ call.arg.t = "Or"
    /\ Len(call.arg.selectors) = 2
    /\ \E elem \in Range(ret) :
          /\ InList(Fresh(call.arg.selectors[1]), elem)
          /\ InList(Fresh(call.arg.selectors[2]), elem)
    /\ Len(ret) >= 2

\* The indexed elements that carry the label, by their place in the index.
Carriers(label) ==
    { k \in 1..Len(elems) : elems[k].content.label = Some(label) }

\* C6: query_label gives the "does not exist" error when no indexed element
\* carries the label, the element when exactly one does, and the "occurs
\* multiple times" error when two or more do.
C6_QueryLabelUnique ==
    Called("query_label") =>
        LET carriers == Carriers(call.arg)
        IN  /\ carriers = {} => ret = Err("does not exist")
            /\ Cardinality(carriers) = 1 =>
                  \E k \in carriers : ret = Ok(elems[k].content)
            /\ Cardinality(carriers) >= 2 => ret = Err("occurs multiple times")

\* C6, its case: a label carried by two elements.
C6_Witness ==
    /\ Called("query_label")
    /\ Cardinality(Carriers(call.arg)) = 2
    /\ ret = Err("occurs multiple times")

\* A step of the walk over an element marker whose location is indexed.
DuplicateStep ==
    /\ pc = "extract"
    /\ item'.kind = "elem"
    /\ contains_key(elems, item'.content.loc)

RecordedOn(p) == { k \in 1..Len(numbered) : numbered[k] = p }

\* C8, as stated: page_numbering of an indexed location is a numbering the
\* frames record on the page of the element, and none if they record none
\* there.
C8_PageNumberingOfPage ==
    (Called("page_numbering") /\ Indexed(call.arg)) =>
        LET recorded == RecordedOn(page(call.arg))
        IN  IF recorded = {}
            THEN ret = None
            ELSE \E k \in recorded : ret = page_numberings[k]

\* C9, as stated: on a location that is not indexed, position is page 1 at
\* the origin, page is 1 and page_numbering is none.
C9_UnknownNoNumbering ==
    /\ (Called("position") /\ ~Indexed(call.arg)) =>
          ret = [page |-> 1, point |-> PointZero]
    /\ (Called("page") /\ ~Indexed(call.arg)) => ret = 1
    /\ (Called("page_numbering") /\ ~Indexed(call.arg)) => ret = None

\* C9, amended: on a location that is not indexed, position is page 1 at
\* the origin, page is 1 and page_numbering is the first entry of the
\* numbering list, none when the list is empty.
C9_UnknownDefaults ==
    /\ (Called("position") /\ ~Indexed(call.arg)) =>
          ret = [page |-> 1, point |-> PointZero]
    /\ (Called("page") /\ ~Indexed(call.arg)) => ret = 1
    /\ (Called("page_numbering") /\ ~Indexed(call.arg)) =>
          ret = IF page_numberings = <<>> THEN None ELSE page_numberings[1]

\* C9, its case: page_numbering of a location that is not indexed returns a
\* numbering.
C9_Witness ==
    /\ Called("page_numbering")
    /\ ~Indexed(call.arg)
    /\ ret # None

PtAdd(p, q) == Pt(p.x + q.x, p.y + q.y)

\* The page point of local point p two groups deep, by the claim: the inner
\* group's transform, its offset, the outer group's transform, its offset.
TwoDeep(outer, inner, p) ==
    PtAdd(PointTransform(PtAdd(PointTransform(p, inner.transform), inner.pos),
                         outer.transform),
          outer.pos)

\* C10: an element marker two groups deep is indexed at
\* apply(T2, apply(T1, p) + (dx1, dy1)) + (dx2, dy2), with T1 and (dx1, dy1)
\* of the inner group and T2 and (dx2, dy2) of the outer one.
C10_NestedTransforms ==
    [][(/\ pc = "extract"
        /\ item'.kind = "elem"
        /\ ~contains_key(elems, item'.content.loc)
        /\ Len(stack) = 2) =>
          elems'[Len(elems')].pos.point = TwoDeep(stack[1], stack[2], item'.pos)]_vars

\* C10, its case: an element indexed inside a quarter turn inside a scaling.
C10_Witness ==
    /\ pc = "extract"
    /\ item.kind = "elem"
    /\ Len(stack) = 2
    /\ stack[1].transform = Scale2
    /\ stack[2].transform = Rotate90
    /\ stack[1].pos # stack[2].pos
    /\ item.pos = Pt(1, 2)
    /\ Len(elems) = 1
    /\ elems[1].pos.point = TwoDeep(stack[1], stack[2], item.pos)
    /\ elems[1].pos.point # PtAdd(PtAdd(item.pos, stack[1].pos), stack[2].pos)
====
